---- MODULE Spec2Model ----
(***************************************************************************)
(* AuctionService: the lot store (src/src/database.cpp), the HTTP handlers *)
(* and the access gate (src/unnamed/part_000), over a PostgreSQL table     *)
(* "lots" accessed by concurrent READ COMMITTED transactions.              *)
(*                                                                         *)
(* Money is counted in steps of 1/Unit of the smallest stored amount: the  *)
(* columns are DECIMAL(12, 2), so a stored price is a multiple of Unit,    *)
(* while a request carries a double, which may fall between two of them.   *)
(* Time is counted in clock ticks of the store's clock.                    *)
(***************************************************************************)
EXTENDS Integers, Sequences, FiniteSets, TLC

\* ---- bounds of the model ------------------------------------------------
MaxReqs == 3        \* requests received in one behaviour
Workers == 2        \* requests handled at the same time (threads of the pool)
MaxClock == 2       \* the store clock runs 0..MaxClock
MaxAmount == 4      \* request amounts range over 0..MaxAmount
Unit == 3           \* request-amount steps per stored DECIMAL(12, 2) step

\* INTERVAL '7 days', in clock ticks
SevenDays == 7
\* INT_MAX, the largest value std::stoi returns
IntMax == 2147483647
\* the largest port main accepts
MaxPort == 65535

Reqs == 1..Workers
\* ids the sequence can give out: one per request of the longest run
MaxLots == MaxReqs + 1
Ids == 1..MaxLots
Amounts == 0..MaxAmount

\* SQL NULL / std::nullopt / JSON null, per column type
NullStr == "NULL"
NullPrice == -1
NullTime == -1
\* a key that the JSON payload does not contain
Absent == "ABSENT"
\* no row (empty result set)
NoRow == [name |-> "NOROW"]

VARIABLES
    lots,       \* committed rows of table lots, by id (NoRow: no such row)
    nextId,     \* next value of the SERIAL sequence lots_id_seq
    clock,      \* the store's clock
    locks,      \* row locks held: pairs <<request, id>>
    req,        \* per worker thread: the handler's and the transaction's locals
    served,     \* number of requests received so far
    accepted,   \* history: per id, amounts of accepted bids in commit order
    proc        \* the process: main's position, its locals and what it logged

vars == <<lots, nextId, clock, locks, req, served, accepted, proc>>

\* ---- rows ---------------------------------------------------------------

\* Coercion of a double to DECIMAL(12, 2) on INSERT/UPDATE: PostgreSQL rounds
\* to the column's scale, half away from zero (amounts here are >= 0).
ToDecimal(x) == ((2 * x + Unit) \div (2 * Unit)) * Unit

\* row_to_json: the columns of a result row as the JSON lot of the response;
\* a stored DECIMAL(12, 2) read as<double>() keeps its value. The column
\* created_at, which no operation reads or changes after the INSERT, is left out.
row_to_json(id, row) ==
    [id |-> id,
     name |-> row.name,
     description |-> row.description,
     start_price |-> row.start_price,
     current_price |-> row.current_price,
     owner_id |-> row.owner_id,
     auction_end_date |-> row.auction_end_date]

NoLot == [id |-> 0]

\* ---- access gate --------------------------------------------------------

\* Authorization header: none, a non-Bearer scheme, "Bearer " alone, a token
Creds == {"missing", "basic", "empty", "token"}

\* Payment service answers to POST /token/check: "none" is no response or a
\* timeout, "s500" a 5xx, "s401" a 401, "s404" another 4xx, "ok_true" and
\* "ok_false" a 200 with allowed true, and false or absent, "ok_garbage" a
\* 200 whose body does not parse, "s302_true" and "s302_false" a 3xx (the
\* client follows no redirect) whose body carries allowed true, and false

extract_bearer_token(cred) == cred = "token"

\* a mutation: a response body that does not parse lets the request through
check_token_failopen(pay) ==
    IF pay \in {"ok_true", "ok_garbage"}
    THEN [allowed |-> TRUE, http_status |-> 200]
    ELSE [allowed |-> FALSE, http_status |-> 403]

\* the httplib::Result of client.Post: whether a response came, its status
\* and what its body holds
Response(pay) ==
    CASE pay = "none" -> [received |-> FALSE, status |-> 0, body |-> "garbage"]
      [] pay = "s500" -> [received |-> TRUE, status |-> 500, body |-> "garbage"]
      [] pay = "s401" -> [received |-> TRUE, status |-> 401, body |-> "garbage"]
      [] pay = "s404" -> [received |-> TRUE, status |-> 404, body |-> "garbage"]
      [] pay = "s302_true" -> [received |-> TRUE, status |-> 302, body |-> "true"]
      [] pay = "s302_false" -> [received |-> TRUE, status |-> 302, body |-> "false"]
      [] pay = "ok_garbage" -> [received |-> TRUE, status |-> 200, body |-> "garbage"]
      [] pay = "ok_false" -> [received |-> TRUE, status |-> 200, body |-> "false"]
      [] OTHER -> [received |-> TRUE, status |-> 200, body |-> "true"]

\* check_token on the payment service's answer (the empty-URL exit cannot be
\* taken: main requires PAYMENT_SERVICE_URL to be non-empty); a body that
\* does not parse throws, which is caught
check_token(pay) ==
    LET response == Response(pay) IN
      CASE ~response.received -> [allowed |-> FALSE, http_status |-> 502]
        [] response.received /\ response.status >= 500 ->
             [allowed |-> FALSE, http_status |-> 502]
        [] response.received /\ response.status = 401 ->
             [allowed |-> FALSE, http_status |-> 401]
        [] response.received /\ response.status >= 400
              /\ response.status < 500 /\ response.status # 401 ->
             [allowed |-> FALSE, http_status |-> 403]
        [] OTHER ->
             IF response.body = "garbage" THEN [allowed |-> FALSE, http_status |-> 502]
             ELSE IF response.body # "true" THEN [allowed |-> FALSE, http_status |-> 403]
             ELSE [allowed |-> TRUE, http_status |-> 200]

require_paid_access(cred, pay) ==
    IF ~extract_bearer_token(cred)
    THEN [allowed |-> FALSE, http_status |-> 401]
    ELSE check_token(pay)

\* the token's entitlement at the payment service: one method name, or none
Methods == {"PlaceBid", "CreateLot", "UpdateLot", "DeleteLot"}
Grants == Methods \cup {"nothing"}

\* ---- requests -----------------------------------------------------------

AbsentPrice == -2

NoParams == [name_present |-> FALSE]

Idle ==
    [kind |-> "none", pc |-> "idle",
     cred |-> "", pay |-> "", grant |-> "", method |-> "",
     id |-> 0, amount |-> NullPrice, params |-> NoParams,
     txnTime |-> 0,
     row |-> NoRow, write |-> "none", pending |-> NoRow,
     reason |-> "", status |-> 0, ret |-> NoLot, items |-> <<>>, ops |-> {}]

\* a worker thread is free before its first request and after each response
Free(r) == req[r].pc \in {"idle", "done"}

\* the next request goes to the first free worker thread
Arrives(r) ==
    /\ proc.pc = "serving"
    /\ served < MaxLots
    /\ Free(r)
    /\ \A q \in Reqs : q < r => ~Free(q)

\* send_json(res, status, ...) and return: the handler's locals are gone
Responded(kind, status) ==
    [Idle EXCEPT !.kind = kind, !.pc = "done", !.status = status]

\* the handler calls the store operation op, which opens its connection and
\* its transaction
Calling(q, op, id, amount, params, pc) ==
    [q EXCEPT !.pc = pc, !.id = id, !.amount = amount, !.params = params,
              !.txnTime = clock, !.ops = {op}]

\* the payment service's answer for the method asked about
Answer(pay, grant, method) ==
    CASE pay = "ok" -> (IF grant = method THEN "ok_true" ELSE "ok_false")
      [] pay = "s302" -> (IF grant = method THEN "s302_true" ELSE "s302_false")
      [] OTHER -> pay

PayStates == {"none", "s500", "s401", "s404", "s302", "ok_garbage", "ok"}

\* what a request presents and what the payment service would answer: the
\* service is asked only when the header carries a token
AuthCases ==
    {<<c, "none", "nothing">> : c \in Creds \ {"token"}}
    \cup {<<"token", p, "nothing">> : p \in PayStates \ {"ok", "s302"}}
    \cup {<<"token", p, g>> : p \in {"ok", "s302"}, g \in Grants}

\* the method name each gated route passes to require_paid_access
MethodOf(kind) ==
    CASE kind = "bid" -> "PlaceBid"
      [] kind = "create" -> "CreateLot"
      [] kind = "update" -> "UpdateLot"
      [] OTHER -> "DeleteLot"

Kinds == {"bid", "create", "update", "delete"}

\* a gated route is requested: require_paid_access(req, res, method_name);
\* of a request the gate turned away, what it presented and what the payment
\* service answered stay on record
Gate(r, kind, cred, pay, grant) ==
    /\ Arrives(r)
    /\ LET answer == Answer(pay, grant, MethodOf(kind))
           g == require_paid_access(cred, answer) IN
         req' = [req EXCEPT ![r] =
                    IF ~g.allowed
                    THEN [Responded(kind, g.http_status) EXCEPT
                             !.cred = cred,
                             !.pay = IF cred = "token" THEN answer ELSE "none"]
                    ELSE [Idle EXCEPT !.kind = kind, !.pc = "handle",
                                      !.cred = cred, !.pay = pay, !.grant = grant,
                                      !.method = MethodOf(kind)]]
    /\ served' = served + 1
    /\ UNCHANGED <<proc, lots, nextId, clock, locks, accepted>>

Holds(r, id) == <<r, id>> \in locks
\* a mutation: a statement waits for no lock
NoLockWait(r, id) == TRUE
\* a mutation: a statement waits while any row of the table is locked
LockFreeTable(r, id) == \A q \in Reqs : q # r => \A i \in Ids : ~Holds(q, i)
\* no other transaction holds the lock of the row with this id
LockFree(r, id) == \A q \in Reqs : q # r => ~Holds(q, id)
\* a mutation: the statement locks every row of the table
AcquireAll(r, id) == locks \cup {<<r, i>> : i \in Ids}
\* the row lock a statement with WHERE id = $1 takes: that of the one row
Acquire(r, id) == locks \cup {<<r, id>>}
\* a mutation: the end of the transaction leaves its row locks in place
KeepLocks(r) == locks
\* txn.commit(), or the abort when the transaction object goes out of scope:
\* the row locks of the transaction are released
Release(r) == {l \in locks : l[1] # r}

\* ---- POST /lots/{id}/bid and Database::place_bid ------------------------

LotNotFound == "Lot not found"
BidTooLow == "Bid must be greater than current price"
AuctionEnded == "Auction has ended"
FailedUpdate == "Failed to update bid"

\* baseline_price of place_bid, from the row read under the lock
Baseline(row) ==
    IF row.current_price = NullPrice THEN row.start_price ELSE row.current_price

\* a mutation: the comparison lets a tie through
TooLowStrict(amount, baseline) == amount < baseline

\* if (bid_amount <= baseline_price)
TooLow(amount, baseline) == amount <= baseline

\* a mutation: a plain SELECT, which waits for no lock
PlainSelect(r, id) == TRUE

\* SELECT ... FOR UPDATE returns once no other transaction holds the row lock
ForUpdate(r, id) == LockFree(r, id)

\* a mutation: the end date itself still counts as open
AuctionOpenAtEnd(row, txnTime) == row.auction_end_date >= txnTime

\* SELECT $1::timestamptz > CURRENT_TIMESTAMP: CURRENT_TIMESTAMP is the start
\* time of the transaction
AuctionOpen(row, txnTime) == row.auction_end_date > txnTime

\* a mutation: the answers to BidTooLow and AuctionEnded are exchanged
BidStatusSwapped(reason) ==
    CASE reason = "" -> 200
      [] reason = LotNotFound -> 404
      [] reason = BidTooLow -> 409
      [] reason = AuctionEnded -> 400
      [] OTHER -> 400

\* the handler's mapping of error_reason to the HTTP status
BidStatus(reason) ==
    CASE reason = "" -> 200
      [] reason = LotNotFound -> 404
      [] reason = BidTooLow -> 400
      [] reason = AuctionEnded -> 409
      [] OTHER -> 400

\* the handler after the gate, up to the call of place_bid: path id, body
PostBid(r, id, amount) ==
    /\ req[r].kind = "bid" /\ req[r].pc = "handle"
    /\ req' = [req EXCEPT ![r] =
                  IF amount = AbsentPrice THEN Responded("bid", 400)
                  ELSE Calling(req[r], "place_bid", id, amount, NoParams, "select")]
    /\ UNCHANGED <<proc, lots, nextId, clock, locks, accepted, served>>

\* SELECT ... FOR UPDATE, which waits for the row lock, and the price check
BidSelect(r) ==
    /\ req[r].kind = "bid" /\ req[r].pc = "select"
    /\ LET id == req[r].id
           row == lots[id] IN
         IF row = NoRow
         THEN /\ req' = [req EXCEPT ![r].pc = "commit", ![r].reason = LotNotFound]
              /\ locks' = locks
         ELSE /\ ForUpdate(r, id)
              /\ locks' = Acquire(r, id)
              /\ req' = [req EXCEPT
                    ![r].row = row,
                    ![r].pc = IF TooLow(req[r].amount, Baseline(row))
                              THEN "commit" ELSE "open",
                    ![r].reason = IF TooLow(req[r].amount, Baseline(row))
                                  THEN BidTooLow ELSE ""]
    /\ UNCHANGED <<proc, lots, nextId, clock, accepted, served>>

\* the liveness query
BidOpen(r) ==
    /\ req[r].kind = "bid" /\ req[r].pc = "open"
    /\ LET auction_open == AuctionOpen(req[r].row, req[r].txnTime) IN
         req' = [req EXCEPT
                    ![r].pc = IF auction_open THEN "update" ELSE "commit",
                    ![r].reason = IF auction_open THEN "" ELSE AuctionEnded]
    /\ UNCHANGED <<proc, lots, nextId, clock, locks, accepted, served>>

\* UPDATE lots SET current_price = $2 WHERE id = $1 RETURNING *
BidUpdate(r) ==
    /\ req[r].kind = "bid" /\ req[r].pc = "update"
    /\ LET id == req[r].id
           row == lots[id] IN
         IF row = NoRow
         THEN req' = [req EXCEPT ![r].pc = "commit", ![r].reason = FailedUpdate]
         ELSE LET new == [row EXCEPT !.current_price = ToDecimal(req[r].amount)] IN
              req' = [req EXCEPT ![r].pc = "commit", ![r].write = "put",
                                 ![r].pending = new, ![r].ret = row_to_json(id, new)]
    /\ UNCHANGED <<proc, lots, nextId, clock, locks, accepted, served>>

\* txn.commit() on each path, and the handler's response
BidCommit(r) ==
    /\ req[r].kind = "bid" /\ req[r].pc = "commit"
    /\ LET id == req[r].id IN
         /\ lots' = IF req[r].write = "put" THEN [lots EXCEPT ![id] = req[r].pending]
                    ELSE lots
         /\ accepted' = IF req[r].write = "put"
                        THEN [accepted EXCEPT ![id] = Append(@, req[r].amount)]
                        ELSE accepted
    /\ locks' = Release(r)
    /\ req' = [req EXCEPT ![r] = Responded("bid", BidStatus(req[r].reason))]
    /\ UNCHANGED <<proc, nextId, clock, served>>

\* ---- POST /lots and Database::create_lot --------------------------------

\* INSERT ... VALUES ($1, $2, $3, $3, $4, COALESCE($5, CURRENT_TIMESTAMP + 7 days)):
\* $3 is bound to start_price and to current_price
InsertedRow(p, txnTime) ==
    [name |-> p.name,
     description |-> p.description,
     start_price |-> ToDecimal(p.start_price),
     current_price |-> ToDecimal(p.start_price),
     owner_id |-> p.owner_id,
     auction_end_date |-> IF p.auction_end_date = NullTime
                          THEN txnTime + SevenDays ELSE p.auction_end_date]

\* LotCreateParams from the payload: absent and null optional fields are nullopt
CreateParams(name, description, start_price, owner_id, auction_end_date) ==
    [name |-> name,
     description |-> IF description = Absent THEN NullStr ELSE description,
     start_price |-> start_price,
     owner_id |-> IF owner_id = Absent THEN NullStr ELSE owner_id,
     auction_end_date |-> auction_end_date]

\* the handler after the gate, up to the call of create_lot: required fields
PostLot(r, name, description, start_price, owner_id, auction_end_date) ==
    /\ req[r].kind = "create" /\ req[r].pc = "handle"
    /\ req' = [req EXCEPT ![r] =
                  IF name = Absent \/ start_price = AbsentPrice
                        \/ auction_end_date = NullTime
                  THEN Responded("create", 400)
                  ELSE Calling(req[r], "create_lot", 0, NullPrice,
                               CreateParams(name, description, start_price,
                                            owner_id, auction_end_date),
                               "exec")]
    /\ UNCHANGED <<proc, lots, nextId, clock, locks, accepted, served>>

\* a mutation: the id is one more than the greatest id stored
MaxIdPlusOne ==
    IF \A i \in Ids : lots[i] = NoRow THEN 1
    ELSE 1 + CHOOSE i \in Ids :
                 lots[i] # NoRow /\ \A j \in Ids : lots[j] # NoRow => j <= i

\* id SERIAL: the INSERT takes nextval('lots_id_seq') as the row's id
nextval == nextId

\* the INSERT: takes the next id of the sequence, which moves on whether or
\* not the transaction commits; the row is not yet visible
CreateExec(r) ==
    /\ req[r].kind = "create" /\ req[r].pc = "exec"
    /\ LET new == InsertedRow(req[r].params, req[r].txnTime) IN
         req' = [req EXCEPT ![r].pc = "commit", ![r].id = nextval,
                            ![r].write = "put", ![r].pending = new,
                            ![r].ret = row_to_json(nextval, new)]
    /\ nextId' = nextId + 1
    /\ UNCHANGED <<proc, lots, clock, locks, accepted, served>>

CreateCommit(r) ==
    /\ req[r].kind = "create" /\ req[r].pc = "commit"
    /\ lots' = [lots EXCEPT ![req[r].id] = req[r].pending]
    /\ req' = [req EXCEPT ![r] = Responded("create", 201)]
    /\ UNCHANGED <<proc, nextId, clock, locks, accepted, served>>

\* ---- PUT /lots/{id} and Database::update_lot ----------------------------

\* a mutation: the handler also takes the key current_price from the payload
PutParamsWithPrice(name, description, owner_id, current_price) ==
    [name_present |-> name # Absent,
     name |-> IF name = Absent THEN NullStr ELSE name,
     description_present |-> description # Absent,
     description |-> IF description = Absent THEN NullStr ELSE description,
     owner_id_present |-> owner_id # Absent,
     owner_id |-> IF owner_id = Absent THEN NullStr ELSE owner_id,
     auction_end_date_present |-> FALSE,
     auction_end_date |-> NullTime,
     current_price_present |-> current_price # AbsentPrice,
     current_price |-> IF current_price = AbsentPrice THEN NullPrice ELSE current_price]

\* LotUpdateParams as the handler fills it from the payload: a key that is
\* present sets the flag, a JSON null leaves the value nullopt. The handler
\* reads the keys name, description and owner_id only; the flags it never
\* sets stay false (LotUpdateParams params{}).
PutParams(name, description, owner_id, current_price) ==
    [name_present |-> name # Absent,
     name |-> IF name = Absent THEN NullStr ELSE name,
     description_present |-> description # Absent,
     description |-> IF description = Absent THEN NullStr ELSE description,
     owner_id_present |-> owner_id # Absent,
     owner_id |-> IF owner_id = Absent THEN NullStr ELSE owner_id,
     auction_end_date_present |-> FALSE,
     auction_end_date |-> NullTime,
     current_price_present |-> FALSE,
     current_price |-> NullPrice]

\* the first test of update_lot: nothing to update
NothingPresent(p) ==
    /\ ~p.name_present /\ ~p.description_present /\ ~p.owner_id_present
    /\ ~p.auction_end_date_present /\ ~p.current_price_present

\* the SET list of the UPDATE statement, applied to a row
ApplyUpdates(row, p) ==
    [row EXCEPT
        !.name = IF p.name_present THEN p.name ELSE @,
        !.description = IF p.description_present THEN p.description ELSE @,
        !.owner_id = IF p.owner_id_present THEN p.owner_id ELSE @,
        !.auction_end_date = IF p.auction_end_date_present THEN p.auction_end_date ELSE @,
        !.current_price = IF p.current_price_present
                          THEN (IF p.current_price = NullPrice THEN NullPrice
                                ELSE ToDecimal(p.current_price))
                          ELSE @]

\* name and auction_end_date are NOT NULL columns
ViolatesNotNull(row) == row.name = NullStr \/ row.auction_end_date = NullTime

\* a mutation: the handler answers 200 whatever update_lot returned
UpdateStatusOk(updated) == 200

\* the handler's answer to update_lot's return value: if (!updated) 404
UpdateStatus(updated) == IF updated THEN 200 ELSE 404

\* the handler after the gate, up to the call of update_lot: path id, body
PutLot(r, id, name, description, owner_id, current_price) ==
    /\ req[r].kind = "update" /\ req[r].pc = "handle"
    /\ LET params == PutParams(name, description, owner_id, current_price) IN
         req' = [req EXCEPT ![r] =
                    Calling(req[r], "update_lot", id, NullPrice, params,
                            IF NothingPresent(params) THEN "read" ELSE "exec")]
    /\ UNCHANGED <<proc, lots, nextId, clock, locks, accepted, served>>

\* update_lot with no field present: get_lot_by_id
UpdateRead(r) ==
    /\ req[r].kind = "update" /\ req[r].pc = "read"
    /\ LET id == req[r].id IN
         req' = [req EXCEPT ![r] =
                    Responded("update", UpdateStatus(lots[id] # NoRow))]
    /\ UNCHANGED <<proc, lots, nextId, clock, locks, accepted, served>>

\* UPDATE lots SET ... WHERE id = ... RETURNING *: waits for the row lock and
\* updates the latest committed version of the row; a constraint violation
\* throws, the transaction is rolled back and the handler answers 500
UpdateExec(r) ==
    /\ req[r].kind = "update" /\ req[r].pc = "exec"
    /\ LET id == req[r].id
           row == lots[id] IN
         IF row = NoRow
         THEN /\ req' = [req EXCEPT ![r].pc = "commit"]
              /\ locks' = locks
         ELSE /\ LockFree(r, id)
              /\ LET new == ApplyUpdates(row, req[r].params) IN
                   IF ViolatesNotNull(new)
                   THEN /\ req' = [req EXCEPT ![r] = Responded("update", 500)]
                        /\ locks' = locks
                   ELSE /\ req' = [req EXCEPT ![r].pc = "commit", ![r].row = row,
                                              ![r].write = "put", ![r].pending = new,
                                              ![r].ret = row_to_json(id, new)]
                        /\ locks' = Acquire(r, id)
    /\ UNCHANGED <<proc, lots, nextId, clock, accepted, served>>

UpdateCommit(r) ==
    /\ req[r].kind = "update" /\ req[r].pc = "commit"
    /\ lots' = IF req[r].write = "put" THEN [lots EXCEPT ![req[r].id] = req[r].pending]
               ELSE lots
    /\ locks' = Release(r)
    /\ req' = [req EXCEPT ![r] =
                  Responded("update", UpdateStatus(req[r].write = "put"))]
    /\ UNCHANGED <<proc, nextId, clock, accepted, served>>

\* ---- DELETE /lots/{id} and Database::delete_lot -------------------------

\* a mutation: the statement spares a lot whose price a bid has raised
DeleteMatchesUnbid(row) == row # NoRow /\ row.current_price = row.start_price

\* DELETE FROM lots WHERE id = $1: the row with that id, whatever it holds
DeleteMatches(row) == row # NoRow

\* the handler after the gate, up to the call of delete_lot: path id
DeleteLot(r, id) ==
    /\ req[r].kind = "delete" /\ req[r].pc = "handle"
    /\ req' = [req EXCEPT ![r] =
                  Calling(req[r], "delete_lot", id, NullPrice, NoParams, "exec")]
    /\ UNCHANGED <<proc, lots, nextId, clock, locks, accepted, served>>

\* DELETE FROM lots WHERE id = $1: waits for the row lock
DeleteExec(r) ==
    /\ req[r].kind = "delete" /\ req[r].pc = "exec"
    /\ LET id == req[r].id
           row == lots[id] IN
         IF ~DeleteMatches(row)
         THEN /\ req' = [req EXCEPT ![r].pc = "commit"]
              /\ locks' = locks
         ELSE /\ LockFree(r, id)
              /\ req' = [req EXCEPT ![r].pc = "commit", ![r].row = row, ![r].write = "del"]
              /\ locks' = Acquire(r, id)
    /\ UNCHANGED <<proc, lots, nextId, clock, accepted, served>>

DeleteCommit(r) ==
    /\ req[r].kind = "delete" /\ req[r].pc = "commit"
    /\ lots' = IF req[r].write = "del" THEN [lots EXCEPT ![req[r].id] = NoRow] ELSE lots
    /\ locks' = Release(r)
    /\ req' = [req EXCEPT ![r] =
                  Responded("delete", IF req[r].write = "del" THEN 204 ELSE 404)]
    /\ UNCHANGED <<proc, nextId, clock, accepted, served>>

\* ---- GET /lots, GET /lots/{id}: get_all_lots and get_lot_by_id -----------

\* a mutation: ORDER BY id DESC
OrderByIdDesc(S) ==
    CHOOSE s \in [1..Cardinality(S) -> S] :
        \A k \in 1..(Cardinality(S) - 1) : s[k] > s[k + 1]

\* ORDER BY id: the ids of the result rows, in the order of the result
OrderById(S) ==
    CHOOSE s \in [1..Cardinality(S) -> S] :
        \A k \in 1..(Cardinality(S) - 1) : s[k] < s[k + 1]

\* SELECT * FROM lots ORDER BY id: one statement, which sees the rows
\* committed when it starts; each row is pushed to the JSON array
get_all_lots ==
    LET ids == OrderById({i \in Ids : lots[i] # NoRow}) IN
      [k \in 1..Len(ids) |-> row_to_json(ids[k], lots[ids[k]])]

\* GET /lots is requested: no gate; the handler calls get_all_lots
GetLots(r) ==
    /\ Arrives(r)
    /\ req' = [req EXCEPT ![r] =
                  Calling([Idle EXCEPT !.kind = "list"], "get_all_lots",
                          0, NullPrice, NoParams, "exec")]
    /\ served' = served + 1
    /\ UNCHANGED <<proc, lots, nextId, clock, locks, accepted>>

\* the SELECT, the commit and the response: 200 and the array
ListExec(r) ==
    /\ req[r].kind = "list" /\ req[r].pc = "exec"
    /\ req' = [req EXCEPT ![r] =
                  [Responded("list", 200) EXCEPT !.items = get_all_lots]]
    /\ UNCHANGED <<proc, lots, nextId, clock, locks, accepted, served>>

\* GET /lots/{id} is requested: no gate; the handler calls get_lot_by_id
GetLot(r, id) ==
    /\ Arrives(r)
    /\ req' = [req EXCEPT ![r] =
                  Calling([Idle EXCEPT !.kind = "get"], "get_lot_by_id",
                          id, NullPrice, NoParams, "exec")]
    /\ served' = served + 1
    /\ UNCHANGED <<proc, lots, nextId, clock, locks, accepted>>

\* SELECT * FROM lots WHERE id = $1, the commit and the response
GetExec(r) ==
    /\ req[r].kind = "get" /\ req[r].pc = "exec"
    /\ LET id == req[r].id IN
         req' = [req EXCEPT ![r] =
                    IF lots[id] = NoRow THEN Responded("get", 404)
                    ELSE [Responded("get", 200) EXCEPT
                             !.ret = row_to_json(id, lots[id])]]
    /\ UNCHANGED <<proc, lots, nextId, clock, locks, accepted, served>>

\* ---- the store's clock --------------------------------------------------

Tick(last) ==
    /\ clock < last
    /\ clock' = clock + 1
    /\ UNCHANGED <<proc, lots, nextId, locks, req, accepted, served>>

\* ---- process startup -----------------------------------------------------

\* std::getenv returned a null pointer: the variable is not set
Unset == <<"UNSET">>
NoMessage == <<>>

\* the variables main reads, in the order it reads them
EnvNames == <<"DATABASE_URL", "REGISTRY_SERVICE_URL", "PAYMENT_SERVICE_URL",
              "SERVICE_PORT">>

\* require_env: the value, or the exception's message when the variable is
\* not set or is empty
require_env(env, name) ==
    IF env[name] = Unset \/ env[name] = <<>>
    THEN [threw |-> TRUE, what |-> <<"Missing environment variable", name>>]
    ELSE [threw |-> FALSE, what |-> NoMessage]

DecimalDigits == <<"0", "1", "2", "3", "4", "5", "6", "7", "8", "9">>
IsDigit(c) == \E d \in 1..Len(DecimalDigits) : DecimalDigits[d] = c
DigitValue(c) == (CHOOSE d \in 1..Len(DecimalDigits) : DecimalDigits[d] = c) - 1

\* strtol's loop over the digits that follow the sign: the value so far and
\* whether it left the range of int
RECURSIVE ParseDigits(_, _, _)
ParseDigits(s, i, acc) ==
    IF i > Len(s) \/ ~IsDigit(s[i]) THEN [value |-> acc, range |-> FALSE]
    ELSE IF acc > (IntMax - DigitValue(s[i])) \div 10
         THEN [value |-> IntMax, range |-> TRUE]
         ELSE ParseDigits(s, i + 1, acc * 10 + DigitValue(s[i]))

RECURSIVE SkipSpace(_, _)
SkipSpace(s, i) == IF i <= Len(s) /\ s[i] = " " THEN SkipSpace(s, i + 1) ELSE i

\* std::stoi: leading white space, an optional sign, then digits; what
\* follows the digits is ignored; no digit or a value out of int's range throws
stoi(s) ==
    LET i == SkipSpace(s, 1)
        signed == i <= Len(s) /\ s[i] \in {"-", "+"}
        j == IF signed THEN i + 1 ELSE i
        digits == ParseDigits(s, j, 0)
    IN  IF j > Len(s) \/ ~IsDigit(s[j]) \/ digits.range
        THEN [threw |-> TRUE, value |-> 0]
        ELSE [threw |-> FALSE,
              value |-> IF signed /\ s[i] = "-" THEN 0 - digits.value
                        ELSE digits.value]

\* JSON values of the registry's answer
Num(n) == <<"number", n>>
Str(t) == <<"string", t>>
is_number(v) == v[1] = "number"
NotJson == [garbage |-> TRUE]
contains(body, key) == key \in DOMAIN body

\* the service id register_service finds in the parsed answer
service_id(body) ==
    IF contains(body, "id") /\ is_number(body["id"]) THEN body["id"][2]
    ELSE IF contains(body, "ID") /\ is_number(body["ID"]) THEN body["ID"][2]
    ELSE IF contains(body, "ServiceModelID") /\ is_number(body["ServiceModelID"])
         THEN body["ServiceModelID"][2]
    ELSE IF contains(body, "data") /\ body["data"][1] = "object"
         THEN (IF contains(body["data"][2], "id")
                  /\ is_number(body["data"][2]["id"])
               THEN body["data"][2]["id"][2] ELSE -1)
    ELSE -1

\* the literal -1 above is service_id's initial value in the code
payable_methods == <<"PlaceBid", "CreateLot", "UpdateLot", "DeleteLot">>

\* register_service against a registry that answers POST /server with
\* reg.server and accepts the first reg.methods method registrations: the
\* service id, or the message of the exception thrown
register_service(reg) ==
    LET Throw(what) == [threw |-> TRUE, what |-> what, id |-> 0]
    IN  IF ~reg.server.received
        THEN Throw(<<"Failed to reach registry service">>)
        ELSE IF reg.server.status >= 400
        THEN Throw(<<"Registry service rejected registration", reg.server.status>>)
        ELSE IF reg.server.body = NotJson
        THEN Throw(<<"parse error">>)
        ELSE IF service_id(reg.server.body) <= 0
        THEN Throw(<<"Unable to determine service id from registry response">>)
        ELSE IF reg.methods < Len(payable_methods)
        THEN Throw(<<"Failed to register method", payable_methods[reg.methods + 1]>>)
        ELSE [threw |-> FALSE, what |-> NoMessage, id |-> service_id(reg.server.body)]

\* the outer catch of main: the message is logged and main returns EXIT_FAILURE
Fatal(p, what) == [p EXCEPT !.pc = "exit", !.fatal = what]

\* a registration failure takes the process down (no inner try/catch)
RegistrationFatal(p, result) ==
    IF result.threw THEN Fatal(p, result.what)
    ELSE [p EXCEPT !.pc = "listen", !.log = <<"Successfully registered service with registry">>]

\* the inner try/catch around register_service: either outcome is logged
\* and main goes on to set up the server
Registered(p, result) ==
    [p EXCEPT !.pc = "listen",
              !.log = IF result.threw
                      THEN <<"Service registration failed", result.what>>
                      ELSE <<"Successfully registered service with registry">>]

\* main reads its four variables
ReadEnv ==
    /\ proc.pc = "env"
    /\ LET missing == {i \in 1..Len(EnvNames) : require_env(proc.env, EnvNames[i]).threw}
       IN  proc' = IF missing = {} THEN [proc EXCEPT !.pc = "port"]
                   ELSE LET first == CHOOSE i \in missing : \A k \in missing : i <= k
                        IN  Fatal(proc, require_env(proc.env, EnvNames[first]).what)
    /\ UNCHANGED <<lots, nextId, clock, locks, req, served, accepted>>

\* main converts and checks SERVICE_PORT
ParsePort ==
    /\ proc.pc = "port"
    /\ LET parsed == stoi(proc.env["SERVICE_PORT"])
       IN  proc' = IF parsed.threw
                   THEN Fatal(proc, <<"SERVICE_PORT must be a valid integer">>)
                   ELSE IF parsed.value <= 0 \/ parsed.value > MaxPort
                   THEN Fatal(proc, <<"SERVICE_PORT must be between 1 and 65535">>)
                   ELSE [proc EXCEPT !.pc = "store", !.service_port = parsed.value]
    /\ UNCHANGED <<lots, nextId, clock, locks, req, served, accepted>>

\* Database's constructor, then ensure_schema on a store that is up, down, or
\* refuses the CREATE TABLE
StoreStates == {"up", "down", "denied"}
OpenStore(store) ==
    /\ proc.pc = "store"
    /\ proc' = IF proc.env["DATABASE_URL"] = <<>>
               THEN Fatal(proc, <<"Database connection string must not be empty">>)
               ELSE IF store = "down" THEN Fatal(proc, <<"store", "connection">>)
               ELSE IF store = "denied" THEN Fatal(proc, <<"store", "schema">>)
               ELSE [proc EXCEPT !.pc = "register"]
    /\ UNCHANGED <<lots, nextId, clock, locks, req, served, accepted>>

\* main registers the service with the registry
Register(reg) ==
    /\ proc.pc = "register"
    /\ proc' = Registered(proc, register_service(reg))
    /\ UNCHANGED <<lots, nextId, clock, locks, req, served, accepted>>

\* server.listen: the port is bound and the server accepts requests, or listen
\* returns false
Listen(bound) ==
    /\ proc.pc = "listen"
    /\ proc' = IF bound THEN [proc EXCEPT !.pc = "serving"]
               ELSE Fatal(proc, <<"Failed to start HTTP server">>)
    /\ UNCHANGED <<lots, nextId, clock, locks, req, served, accepted>>

\* the environments main may start in
PortTexts ==
    {Unset, <<>>, <<"x">>, <<"0">>, <<"-", "1">>, <<"8", "0">>,
     <<" ", "8", "0", "x">>, <<"6", "5", "5", "3", "5">>,
     <<"6", "5", "5", "3", "6">>, <<"9", "9", "9", "9", "9", "9", "9", "9", "9", "9">>}
Envs ==
    {[n \in {EnvNames[i] : i \in 1..Len(EnvNames)} |->
        CASE n = "DATABASE_URL" -> d
          [] n = "REGISTRY_SERVICE_URL" -> g
          [] n = "PAYMENT_SERVICE_URL" -> y
          [] n = "SERVICE_PORT" -> t] :
     d \in {Unset, <<>>, <<"d">>}, g \in {Unset, <<"r">>}, y \in {Unset, <<"p">>},
     t \in PortTexts}

\* the registry's answers to POST /server
RegistryBodies ==
    {NotJson, [id |-> Num(4)], [ID |-> Num(4)], [ServiceModelID |-> Num(4)],
     [data |-> <<"object", [id |-> Num(4)]>>], [data |-> <<"object", [name |-> Str("a")]>>],
     [id |-> Str("4")], [id |-> Num(0)], [name |-> Str("a")]}
Registries ==
    {[server |-> [received |-> FALSE, status |-> 0, body |-> NotJson], methods |-> 0]}
    \cup {[server |-> [received |-> TRUE, status |-> st, body |-> b], methods |-> m] :
            st \in {200, 302, 404, 500}, b \in RegistryBodies,
            m \in 0..Len(payable_methods)}

\* main up to the point where the server accepts requests
Startup ==
    \/ ReadEnv
    \/ ParsePort
    \/ \E store \in StoreStates : OpenStore(store)
    \/ \E reg \in Registries : Register(reg)
    \/ \E bound \in BOOLEAN : Listen(bound)

\* a process that has started and listens
Serving ==
    [pc |-> "serving",
     env |-> [n \in {EnvNames[i] : i \in 1..Len(EnvNames)} |->
                IF n = "SERVICE_PORT" THEN <<"8", "0">> ELSE <<"u">>],
     service_port |-> 80,
     log |-> <<"Successfully registered service with registry">>,
     fatal |-> NoMessage]

\* ---- the system ---------------------------------------------------------

\* request inputs: the credentials and payment answers, and the payloads
AllowedCase == {<<"token", "ok", g>> : g \in Methods}

BidInputs ==
    [requests |-> MaxReqs,
     auth |-> AllowedCase \cup {<<"missing", "none", "nothing">>},
     ids |-> 1..MaxReqs,
     amounts |-> Amounts \cup {AbsentPrice},
     createTexts |-> {Absent},
     names |-> {Absent, "a"},
     startPrices |-> {1, 3},
     endDates |-> 1..MaxClock,
     lastTick |-> MaxClock,
     updateNames |-> {Absent, "b"},
     updateTexts |-> {Absent},
     priceKeys |-> {AbsentPrice}]

MetaInputs ==
    [requests |-> MaxReqs,
     auth |-> AllowedCase,
     ids |-> 1..2,
     amounts |-> {MaxAmount},
     createTexts |-> {"a"},
     names |-> {"a"},
     startPrices |-> {1},
     endDates |-> {MaxClock},
     lastTick |-> 1,
     updateNames |-> {Absent, NullStr, "b"},
     updateTexts |-> {Absent, NullStr, "b"},
     priceKeys |-> {AbsentPrice, MaxAmount}]

GateInputs ==
    [requests |-> MaxReqs,
     auth |-> AuthCases,
     ids |-> 1..2,
     amounts |-> {MaxAmount},
     createTexts |-> {Absent},
     names |-> {"a"},
     startPrices |-> {3},
     endDates |-> {MaxClock},
     lastTick |-> 1,
     updateNames |-> {Absent, "b"},
     updateTexts |-> {Absent},
     priceKeys |-> {AbsentPrice}]

LotsInputs ==
    [requests |-> MaxReqs,
     auth |-> AllowedCase,
     ids |-> 1..2,
     amounts |-> {MaxAmount},
     createTexts |-> {Absent},
     names |-> {"a"},
     startPrices |-> {1},
     endDates |-> {NullTime, MaxClock},
     lastTick |-> 1,
     updateNames |-> {Absent, "b"},
     updateTexts |-> {Absent},
     priceKeys |-> {AbsentPrice}]

\* two lots and an operation on each: one request more, one payload each
PairInputs ==
    [requests |-> MaxReqs + 1,
     auth |-> AllowedCase,
     ids |-> 1..2,
     amounts |-> {MaxAmount},
     createTexts |-> {Absent},
     names |-> {"a"},
     startPrices |-> {1},
     endDates |-> {MaxClock},
     lastTick |-> 1,
     updateNames |-> {Absent, "b"},
     updateTexts |-> {Absent},
     priceKeys |-> {AbsentPrice}]

\* after ensure_schema on an empty database, the server listening, no request
\* received
Init ==
    /\ lots = [i \in Ids |-> NoRow]
    /\ nextId = 1
    /\ clock = 0
    /\ locks = {}
    /\ req = [r \in Reqs |-> Idle]
    /\ served = 0
    /\ accepted = [i \in Ids |-> <<>>]
    /\ proc = Serving

\* the steps of worker thread r on a gated request it has received
Proceeds(r, in) ==
    \/ \E id \in in.ids, amount \in in.amounts : PostBid(r, id, amount)
    \/ \E name \in in.names, description \in in.createTexts,
          start_price \in in.startPrices, owner_id \in in.createTexts,
          auction_end_date \in in.endDates :
         PostLot(r, name, description, start_price, owner_id, auction_end_date)
    \/ \E id \in in.ids, name \in in.updateNames, description \in in.updateTexts,
          owner_id \in in.updateTexts, current_price \in in.priceKeys :
         PutLot(r, id, name, description, owner_id, current_price)
    \/ \E id \in in.ids : DeleteLot(r, id)
    \/ BidSelect(r) \/ BidOpen(r) \/ BidUpdate(r) \/ BidCommit(r)
    \/ CreateExec(r) \/ CreateCommit(r)
    \/ UpdateRead(r) \/ UpdateExec(r) \/ UpdateCommit(r)
    \/ DeleteExec(r) \/ DeleteCommit(r)

Step(in) ==
    \/ Tick(in.lastTick)
    \/ \E r \in Reqs :
        \/ /\ served < in.requests
           /\ \E kind \in Kinds, a \in in.auth : Gate(r, kind, a[1], a[2], a[3])
        \/ Proceeds(r, in)

\* bidding: all amounts and end dates, little metadata
Next == Step(BidInputs)
Spec == Init /\ [][Next]_vars

\* metadata: all update payloads, one price
NextMeta == Step(MetaInputs)
SpecMeta == Init /\ [][NextMeta]_vars

\* the access gate: all credentials and payment answers
NextGate == Step(GateInputs)
SpecGate == Init /\ [][NextGate]_vars

\* operations on two lots at the same time
NextPair == Step(PairInputs)
SpecPair == Init /\ [][NextPair]_vars

\* the lot store with its reading routes: creates with and without an end
\* date, one price
NextLots ==
    \/ Step(LotsInputs)
    \/ \E r \in Reqs :
        \/ /\ served < LotsInputs.requests
           /\ \/ GetLots(r)
              \/ \E id \in LotsInputs.ids : GetLot(r, id)
        \/ ListExec(r) \/ GetExec(r)
SpecLots == Init /\ [][NextLots]_vars

\* the same with scheduling: a worker thread that can take a step of its
\* request is not kept from it for ever (the pool's threads run independently,
\* and the store grants a free row lock to a statement that waits for it)
Fairness == \A r \in Reqs : WF_vars(Proceeds(r, LotsInputs))
SpecLive == Init /\ [][NextLots]_vars /\ Fairness

\* the process from its start: any environment, then requests once it listens
BootInputs ==
    [requests |-> MaxReqs - 1,
     auth |-> AllowedCase,
     ids |-> {1},
     amounts |-> {MaxAmount},
     createTexts |-> {Absent},
     names |-> {"a"},
     startPrices |-> {1},
     endDates |-> {MaxClock},
     lastTick |-> 1,
     updateNames |-> {Absent, "b"},
     updateTexts |-> {Absent},
     priceKeys |-> {AbsentPrice}]

InitBoot ==
    /\ lots = [i \in Ids |-> NoRow]
    /\ nextId = 1
    /\ clock = 0
    /\ locks = {}
    /\ req = [r \in Reqs |-> Idle]
    /\ served = 0
    /\ accepted = [i \in Ids |-> <<>>]
    /\ \E env \in Envs :
         proc = [pc |-> "env", env |-> env, service_port |-> 0,
                 log |-> NoMessage, fatal |-> NoMessage]

NextBoot == Startup \/ Step(BootInputs)

\* main runs on its own thread, which nothing holds back
SpecBoot == InitBoot /\ [][NextBoot]_vars /\ WF_vars(Startup)

\* ---- properties ---------------------------------------------------------

\* request r is a place_bid that has read its lot under the row lock and has
\* not yet committed
InBid(r) ==
    /\ req[r].kind = "bid"
    /\ req[r].pc \in {"open", "update", "commit"}
    /\ req[r].row # NoRow

\* request r takes the step
Moves(r) == req'[r] # req[r]

StrictlyIncreasing(seq) ==
    \A k \in 1..(Len(seq) - 1) : seq[k] < seq[k + 1]

\* C1: for every lot, the amounts of the accepted bids, in commit order, are
\* strictly increasing.
C1_Monotonic == \A i \in Ids : StrictlyIncreasing(accepted[i])

\* C2: at most one place_bid per lot is between its locked read and its
\* commit; the row it read is still the committed row, so its baseline is the
\* one left by the calls serialized before it; and on a lot that is still
\* live, the call writes if and only if its amount is strictly greater than
\* that baseline, every other call being rejected with BidTooLow.
C2_Linearizable ==
    \A r \in Reqs :
        InBid(r) =>
            /\ \A q \in Reqs : (q # r /\ InBid(q)) => req[q].id # req[r].id
            /\ lots[req[r].id] = req[r].row
            /\ (req[r].pc = "commit" /\ clock < req[r].row.auction_end_date) =>
                   /\ (req[r].write = "put")
                          <=> (req[r].amount > Baseline(lots[req[r].id]))
                   /\ req[r].write = "put" =>
                          req[r].pending.current_price = ToDecimal(req[r].amount)
                   /\ req[r].write # "put" => req[r].reason = BidTooLow

\* two bids on one live lot, both above the price it had: the first has
\* written and not yet committed, the second waits for the row lock
C2_Witness ==
    \E r, q \in Reqs :
        /\ r # q
        /\ InBid(r) /\ req[r].pc = "commit" /\ req[r].write = "put"
        /\ clock < req[r].row.auction_end_date
        /\ req[q].kind = "bid" /\ req[q].pc = "select" /\ req[q].id = req[r].id
        /\ req[q].amount > Baseline(lots[req[r].id])

\* C3: a place_bid whose amount equals the baseline it read is rejected with
\* BidTooLow and writes nothing, live auction or not; the handler answers 400
\* and the store is as it was.
C3_TieRejected ==
    /\ [](\A r \in Reqs :
            (InBid(r) /\ req[r].amount = Baseline(req[r].row)) =>
                /\ req[r].pc = "commit"
                /\ req[r].reason = BidTooLow
                /\ req[r].write = "none")
    /\ [][\A r \in Reqs :
            (InBid(r) /\ req[r].amount = Baseline(req[r].row) /\ Moves(r)) =>
                /\ req'[r].pc = "done" /\ req'[r].status = 400
                /\ lots' = lots]_vars

\* a tie on a lot whose auction has ended, decided and not yet committed
C3_Witness ==
    \E r \in Reqs :
        /\ InBid(r) /\ req[r].amount = Baseline(req[r].row)
        /\ req[r].pc = "commit"
        /\ clock >= req[r].row.auction_end_date
        /\ req[r].txnTime >= req[r].row.auction_end_date

\* C4: at the step where place_bid writes current_price, and at the step
\* where it commits the write, the store clock is strictly before the lot's
\* auction_end_date.
C4_WriteBeforeEnd ==
    [][\A r \in Reqs :
        (/\ InBid(r) /\ Moves(r)
         /\ \/ req[r].pc = "update" /\ req'[r].write = "put"
            \/ req[r].pc = "commit" /\ req[r].write = "put")
        => clock < req[r].row.auction_end_date]_vars

\* C5: a place_bid on an existing lot whose transaction started at or after
\* the lot's auction_end_date (it was submitted no earlier than that), with an
\* amount strictly greater than the baseline it read, is rejected with
\* AuctionEnded, the handler answers 409, and the lot keeps its current_price.
C5_ExpiryBoundary ==
    /\ [](\A r \in Reqs :
            (/\ InBid(r) /\ req[r].pc \in {"update", "commit"}
             /\ req[r].amount > Baseline(req[r].row)
             /\ req[r].txnTime >= req[r].row.auction_end_date) =>
                /\ req[r].pc = "commit"
                /\ req[r].reason = AuctionEnded
                /\ req[r].write = "none")
    /\ [][\A r \in Reqs :
            (/\ InBid(r) /\ req[r].pc \in {"update", "commit"}
             /\ req[r].amount > Baseline(req[r].row)
             /\ req[r].txnTime >= req[r].row.auction_end_date
             /\ Moves(r)) =>
                /\ req'[r].pc = "done" /\ req'[r].status = 409
                /\ lots' = lots]_vars

\* a bid above the baseline, started exactly at the end date, and rejected
C5_Witness ==
    \E r \in Reqs :
        /\ InBid(r) /\ req[r].pc = "commit"
        /\ req[r].amount > Baseline(req[r].row)
        /\ req[r].txnTime = req[r].row.auction_end_date
        /\ req[r].reason = AuctionEnded

\* C6: create stores and returns a lot whose current_price is null, and
\* current_price stays null until the first accepted bid on that lot.
C6_CreatedWithoutPrice ==
    /\ \A r \in Reqs :
          (req[r].kind = "create" /\ req[r].pc = "commit") =>
              /\ req[r].pending.current_price = NullPrice
              /\ req[r].ret.current_price = NullPrice
    /\ \A i \in Ids :
          (lots[i] # NoRow /\ accepted[i] = <<>>) => lots[i].current_price = NullPrice

\* C7: every stored lot has current_price null or strictly greater than its
\* start_price.
C7_PriceAboveStart ==
    \A i \in Ids :
        lots[i] # NoRow =>
            \/ lots[i].current_price = NullPrice
            \/ lots[i].current_price > lots[i].start_price

\* C8: no step of an update request changes the current_price or the
\* start_price of any lot, whatever keys its payload carries; the row it is
\* about to write has the prices of the row it replaces.
C8_UpdateKeepsPrices ==
    /\ [](\A r \in Reqs :
            (req[r].kind = "update" /\ req[r].write = "put") =>
                /\ req[r].pending.current_price = lots[req[r].id].current_price
                /\ req[r].pending.start_price = lots[req[r].id].start_price)
    /\ [][\A r \in Reqs :
            (req[r].kind = "update" /\ Moves(r)) =>
                \A i \in Ids :
                    lots[i] # NoRow =>
                        /\ lots'[i] # NoRow
                        /\ lots'[i].current_price = lots[i].current_price
                        /\ lots'[i].start_price = lots[i].start_price]_vars

\* an update that changes a lot whose price a bid has raised, about to commit
C8_Witness ==
    \E r \in Reqs :
        /\ req[r].kind = "update" /\ req[r].pc = "commit" /\ req[r].write = "put"
        /\ req[r].pending # lots[req[r].id]
        /\ lots[req[r].id].current_price # lots[req[r].id].start_price
        /\ accepted[req[r].id] # <<>>

\* the operation name a route must be allowed for, and its store operation
OwnMethod(kind) ==
    CASE kind = "bid" -> "PlaceBid"
      [] kind = "create" -> "CreateLot"
      [] kind = "update" -> "UpdateLot"
      [] kind = "delete" -> "DeleteLot"
      [] OTHER -> "none"

OwnOp(kind) ==
    CASE kind = "bid" -> "place_bid"
      [] kind = "create" -> "create_lot"
      [] kind = "update" -> "update_lot"
      [] kind = "delete" -> "delete_lot"
      [] OTHER -> "none"

\* the request carried a token, and the payment service allowed it for the
\* route's own operation name
GateAllowed(r) ==
    /\ req[r].cred = "token"
    /\ req[r].pay \in {"ok", "s302"}
    /\ req[r].grant = OwnMethod(req[r].kind)
    /\ req[r].method = OwnMethod(req[r].kind)

\* C9: a request past the gate, or with a store operation invoked or under
\* way, was allowed by the gate for its route's own operation name, and the
\* operation is the route's own; every change of the store is a step of such
\* a request.
C9_GateBeforeStore ==
    /\ [](\A r \in Reqs :
            (req[r].ops # {} \/ req[r].pc \notin {"idle", "done"}) =>
                /\ GateAllowed(r)
                /\ req[r].ops \subseteq {OwnOp(req[r].kind)})
    /\ [][(lots' # lots \/ nextId' # nextId \/ locks' # locks) =>
            \E r \in Reqs : GateAllowed(r) /\ req[r].ops # {} /\ Moves(r)]_vars

\* one request denied by the gate while another, allowed, has written
C9_Witness ==
    \E r, q \in Reqs :
        /\ req[r].pc = "done" /\ req[r].status \in {401, 403, 502}
        /\ req[q].ops # {} /\ req[q].write = "put"

\* the row an update of `row` with the supplied fields of `p` must leave
Supplied(row, p) ==
    [row EXCEPT
        !.name = IF p.name_present THEN p.name ELSE @,
        !.description = IF p.description_present THEN p.description ELSE @,
        !.owner_id = IF p.owner_id_present THEN p.owner_id ELSE @]

\* C10: an update of an existing lot with some field supplied writes the row
\* with exactly the supplied fields among name, description and owner_id
\* changed, and its commit leaves every other lot as it was; an update with no
\* field changes nothing.
C10_PartialUpdate ==
    [][\A r \in Reqs :
        (/\ req[r].kind = "update" /\ req[r].pc \in {"read", "exec", "commit"}
         /\ Moves(r) /\ lots[req[r].id] # NoRow) =>
            /\ req[r].pc = "exec" =>
                   /\ req'[r].pc = "commit"
                   /\ req'[r].pending = Supplied(lots[req[r].id], req[r].params)
            /\ (req[r].pc = "commit" /\ req[r].write = "put") =>
                   lots' = [lots EXCEPT ![req[r].id] = req[r].pending]
            /\ (req[r].pc = "commit" /\ req[r].write # "put") => lots' = lots
            /\ req[r].pc = "read" =>
                   /\ lots' = lots
                   /\ req'[r].status = 200]_vars

\* C11: an update whose id names no row answers 404 and changes nothing,
\* whatever fields its payload supplies, none included: its read or its UPDATE
\* statement finds no row, writes nothing, and no lot is created or modified
\* by any of its steps.
C11_UpdateNotFound ==
    [][\A r \in Reqs :
        (req[r].kind = "update" /\ Moves(r)) =>
            /\ (req[r].pc = "read" /\ lots[req[r].id] = NoRow) =>
                   /\ req'[r].pc = "done" /\ req'[r].status = 404
                   /\ lots' = lots /\ nextId' = nextId
            /\ (req[r].pc = "exec" /\ lots[req[r].id] = NoRow) =>
                   /\ req'[r].pc = "commit" /\ req'[r].write = "none"
                   /\ lots' = lots /\ nextId' = nextId
            /\ (req[r].pc = "commit" /\ req[r].write = "none") =>
                   /\ req'[r].pc = "done" /\ req'[r].status = 404
                   /\ lots' = lots /\ nextId' = nextId]_vars

\* an update with name null whose statement found no row, about to return,
\* beside an update with no field about to read an id that names no row
C11_Witness ==
    \E r, q \in Reqs :
        /\ req[r].kind = "update" /\ req[r].pc = "commit" /\ req[r].write = "none"
        /\ req[r].params.name_present /\ req[r].params.name = NullStr
        /\ lots[req[r].id] = NoRow
        /\ req[q].kind = "update" /\ req[q].pc = "read" /\ lots[req[q].id] = NoRow

\* C12: a delete whose statement finds the row with its id removes exactly
\* that row at its commit and answers 204, whether the lot has bids or not and
\* whether its auction is live or not; a delete whose statement finds no row
\* answers 404; no step of a delete changes any other lot.
C12_DeleteExact ==
    [][\A r \in Reqs :
        (req[r].kind = "delete" /\ req[r].pc \in {"exec", "commit"} /\ Moves(r)) =>
            /\ (req[r].pc = "exec" /\ lots[req[r].id] = NoRow) =>
                   /\ req'[r].pc = "commit" /\ req'[r].write = "none"
                   /\ lots' = lots
            /\ (req[r].pc = "exec" /\ lots[req[r].id] # NoRow) =>
                   /\ req'[r].pc = "commit" /\ req'[r].write = "del"
                   /\ lots' = lots
            /\ (req[r].pc = "commit" /\ req[r].write = "del") =>
                   /\ lots[req[r].id] # NoRow
                   /\ lots' = [lots EXCEPT ![req[r].id] = NoRow]
                   /\ req'[r].pc = "done" /\ req'[r].status = 204
            /\ (req[r].pc = "commit" /\ req[r].write # "del") =>
                   /\ lots' = lots
                   /\ req'[r].pc = "done" /\ req'[r].status = 404]_vars

\* a delete about to remove a lot that has an accepted bid and a live auction
C12_Witness ==
    \E r \in Reqs :
        /\ req[r].kind = "delete" /\ req[r].pc = "commit" /\ req[r].write = "del"
        /\ accepted[req[r].id] # <<>>
        /\ lots[req[r].id].current_price > lots[req[r].id].start_price
        /\ clock < lots[req[r].id].auction_end_date

\* C13: the sequence only moves forward and every id taken is below it; a
\* create takes, and returns, an id that is at least the sequence value, hence
\* greater than the id of every stored lot, of every create still under way
\* and of every create before it, deleted lots included; a row appears only
\* at the id its create took, where no row is; it disappears only by a delete
\* of that id; an update or a bid returns the lot under the id it was given.
C13_IdsNeverReused ==
    /\ [](/\ \A i \in Ids : lots[i] # NoRow => i < nextId
          /\ \A r \in Reqs :
                (req[r].kind = "create" /\ req[r].pc = "commit") =>
                    /\ req[r].id < nextId
                    /\ req[r].ret.id = req[r].id
                    /\ lots[req[r].id] = NoRow
                    /\ \A q \in Reqs :
                          (q # r /\ req[q].kind = "create" /\ req[q].pc = "commit")
                              => req[q].id # req[r].id
          /\ \A r \in Reqs :
                (req[r].kind \in {"bid", "update"} /\ req[r].write = "put") =>
                    req[r].ret.id = req[r].id)
    /\ [][/\ nextId' >= nextId
          /\ \A r \in Reqs :
                (req[r].kind = "create" /\ req[r].pc = "exec" /\ Moves(r)) =>
                    /\ req'[r].id >= nextId
                    /\ nextId' > req'[r].id
                    /\ \A i \in Ids : lots[i] # NoRow => req'[r].id > i
          /\ \A i \in Ids :
                /\ (lots[i] = NoRow /\ lots'[i] # NoRow) =>
                       \E r \in Reqs : /\ req[r].kind = "create" /\ req[r].pc = "commit"
                                        /\ req[r].id = i /\ Moves(r)
                /\ (lots[i] # NoRow /\ lots'[i] = NoRow) =>
                       \E r \in Reqs : /\ req[r].kind = "delete" /\ req[r].pc = "commit"
                                        /\ req[r].id = i /\ Moves(r)]_vars

\* a create that has taken id 2 while no lot is stored: lot 1 was created
\* and deleted before it
C13_Witness ==
    \E r \in Reqs :
        /\ req[r].kind = "create" /\ req[r].pc = "commit" /\ req[r].id = 2
        /\ \A i \in Ids : lots[i] = NoRow
        /\ \A q \in Reqs : q # r => Free(q)

\* C14: of a request that presented a bearer token and was turned away, the
\* status follows the payment service's answer: 403 for a 200 with allowed
\* false, 401 for a 401, 403 for another 4xx, 502 for a 5xx and for no
\* response; and a request is past the gate only on a 200 with allowed true.
C14_GateMapping ==
    \A r \in Reqs :
        /\ (req[r].pc = "done" /\ req[r].cred = "token") =>
              /\ req[r].pay = "ok_false" => req[r].status = 403
              /\ req[r].pay = "s401" => req[r].status = 401
              /\ req[r].pay = "s404" => req[r].status = 403
              /\ req[r].pay \in {"s500", "none"} => req[r].status = 502
        /\ req[r].pc \notin {"idle", "done"} =>
              /\ req[r].cred = "token"
              /\ Answer(req[r].pay, req[r].grant, req[r].method) = "ok_true"

\* C15: the array a list returns holds the stored lots, as stored, each once
\* and no other, by strictly ascending id, and is empty when no lot is stored;
\* no step of a list or of a get changes the table, the sequence or a lock.
C15_ListExact ==
    [][\A r \in Reqs :
        /\ (req[r].kind = "list" /\ req[r].pc = "exec" /\ Moves(r)) =>
              LET items == req'[r].items IN
                /\ req'[r].pc = "done" /\ req'[r].status = 200
                /\ Len(items) = Cardinality({i \in Ids : lots[i] # NoRow})
                /\ \A i \in Ids :
                      lots[i] # NoRow =>
                          \E k \in 1..Len(items) : items[k] = row_to_json(i, lots[i])
                /\ \A k \in 1..(Len(items) - 1) : items[k].id < items[k + 1].id
        /\ (req'[r].kind \in {"list", "get"} /\ Moves(r)) =>
              /\ lots' = lots /\ nextId' = nextId /\ locks' = locks
                 /\ accepted' = accepted]_vars

\* a list about to read a table of two lots
C15_Witness ==
    \E r \in Reqs :
        /\ req[r].kind = "list" /\ req[r].pc = "exec"
        /\ Cardinality({i \in Ids : lots[i] # NoRow}) = 2

\* the end date create must store for the payload's auction_end_date
EndDateFor(auction_end_date, txnTime) ==
    IF auction_end_date = NullTime THEN txnTime + SevenDays ELSE auction_end_date

\* C16: a create whose payload has a name and a start_price and no
\* auction_end_date is not rejected: the handler calls create_lot; and the row
\* a create inserts, returns and commits has the end date supplied, or its
\* creation time plus 7 days when none was supplied.
C16_EndDateDefault ==
    [][\A r \in Reqs :
        /\ (\E name \in LotsInputs.names \ {Absent},
               start_price \in LotsInputs.startPrices \ {AbsentPrice},
               text \in LotsInputs.createTexts :
                 PostLot(r, name, text, start_price, text, NullTime)) =>
              /\ req'[r].pc = "exec"
              /\ req'[r].params.auction_end_date = NullTime
        /\ (req[r].kind = "create" /\ req[r].pc = "exec" /\ Moves(r)) =>
              /\ req'[r].pending.auction_end_date =
                     EndDateFor(req[r].params.auction_end_date, req[r].txnTime)
              /\ req'[r].ret.auction_end_date = req'[r].pending.auction_end_date
        /\ (req[r].kind = "create" /\ req[r].pc = "commit" /\ Moves(r)) =>
              /\ req'[r].status = 201
              /\ lots'[req[r].id].auction_end_date =
                     EndDateFor(req[r].params.auction_end_date, req[r].txnTime)]_vars

\* request r is a place_bid past its SELECT and not yet returned
Decided(r) ==
    /\ req[r].kind = "bid"
    /\ req[r].pc \in {"open", "update", "commit"}

\* C17: a place_bid whose SELECT found no row is rejected with LotNotFound,
\* whatever its amount; one that found the row with an amount not above the
\* baseline is rejected with BidTooLow, ended auction or not; AuctionEnded is
\* the reason only when the row was found, the amount is above the baseline
\* and the liveness query says no; the call writes only when the row was
\* found, the amount is above the baseline and the liveness query says yes;
\* the handler answers 404, 400, 409 and 200 accordingly.
C17_CheckOrder ==
    /\ [](\A r \in Reqs :
            Decided(r) =>
                /\ req[r].row = NoRow =>
                       /\ req[r].pc = "commit" /\ req[r].reason = LotNotFound
                       /\ req[r].write = "none"
                /\ (req[r].row # NoRow /\ req[r].amount <= Baseline(req[r].row)) =>
                       /\ req[r].pc = "commit" /\ req[r].reason = BidTooLow
                       /\ req[r].write = "none"
                /\ req[r].reason = AuctionEnded =>
                       /\ req[r].pc = "commit" /\ req[r].write = "none"
                       /\ req[r].row # NoRow
                       /\ req[r].amount > Baseline(req[r].row)
                       /\ req[r].row.auction_end_date <= req[r].txnTime
                /\ req[r].write = "put" =>
                       /\ req[r].pc = "commit" /\ req[r].reason = ""
                       /\ req[r].row # NoRow
                       /\ req[r].amount > Baseline(req[r].row)
                       /\ req[r].row.auction_end_date > req[r].txnTime
                /\ req[r].pc = "commit" =>
                       /\ req[r].reason \in {"", LotNotFound, BidTooLow, AuctionEnded}
                       /\ req[r].reason = "" <=> req[r].write = "put")
    /\ [][\A r \in Reqs :
            /\ (req[r].kind = "bid" /\ req[r].pc = "select" /\ Moves(r)
                   /\ lots[req[r].id] = NoRow) =>
                  /\ req'[r].pc = "commit" /\ req'[r].reason = LotNotFound
            /\ (Decided(r) /\ req[r].pc = "commit" /\ Moves(r)) =>
                  /\ req'[r].pc = "done"
                  /\ req[r].reason = LotNotFound => req'[r].status = 404
                  /\ req[r].reason = BidTooLow => req'[r].status = 400
                  /\ req[r].reason = AuctionEnded => req'[r].status = 409
                  /\ req[r].reason = "" => req'[r].status = 200]_vars

\* an amount below the baseline on an ended auction, rejected with BidTooLow,
\* beside a bid on an id that names no row, rejected with LotNotFound
C17_Witness ==
    \E r, q \in Reqs :
        /\ Decided(r) /\ req[r].pc = "commit" /\ req[r].reason = BidTooLow
        /\ req[r].amount < Baseline(req[r].row)
        /\ req[r].row.auction_end_date <= req[r].txnTime
        /\ Decided(q) /\ req[q].pc = "commit" /\ req[q].reason = LotNotFound
        /\ req[q].amount > 0

\* C18: the commit of an accepted place_bid leaves the table as it was but
\* for the lot's current_price, which is exactly the amount of the bid, and
\* the lot returned is that row; every other step of a place_bid, and the
\* commit of a rejected one, leave the table as it was.
C18_BidFrame ==
    [][\A r \in Reqs :
        (req[r].kind = "bid" /\ req[r].pc \in {"select", "open", "update", "commit"}
            /\ Moves(r)) =>
            /\ nextId' = nextId
            /\ IF req[r].pc = "commit" /\ req[r].write = "put"
               THEN /\ lots' = [lots EXCEPT ![req[r].id].current_price = req[r].amount]
                    /\ req[r].ret = row_to_json(req[r].id, lots'[req[r].id])
                    /\ req'[r].status = 200
               ELSE lots' = lots]_vars

\* C19: a row lock is held only by a place_bid, an update or a delete that
\* is between its locking statement and its commit, on the row of its own id;
\* a request that has returned holds none, so that no lock is held when no
\* request is in flight.
C19_NoLockOutlives ==
    /\ \A l \in locks :
          /\ req[l[1]].kind \in {"bid", "update", "delete"}
          /\ req[l[1]].pc \in {"open", "update", "commit"}
          /\ req[l[1]].id = l[2]
    /\ (\A r \in Reqs : Free(r)) => locks = {}

\* all requests have returned: a bid rejected with AuctionEnded and a delete
\* that removed the lot, each of which held the row lock
C19_Witness ==
    /\ \A r \in Reqs : Free(r)
    /\ \E r, q \in Reqs :
          /\ req[r].kind = "bid" /\ req[r].pc = "done" /\ req[r].status = 409
          /\ req[q].kind = "delete" /\ req[q].pc = "done" /\ req[q].status = 204

\* request r is at its locking statement, and q holds the lock of its row
WaitsFor(r, q) ==
    /\ q # r
    /\ \/ req[r].kind = "bid" /\ req[r].pc = "select"
       \/ req[r].kind \in {"update", "delete"} /\ req[r].pc = "exec"
    /\ lots[req[r].id] # NoRow
    /\ Holds(q, req[r].id)

\* request r has been handed to place_bid, update_lot or delete_lot
Started(r) ==
    /\ req[r].kind \in {"bid", "update", "delete"}
    /\ req[r].pc \notin {"idle", "handle", "done"}

\* C20: a request holds the lock of at most one row; in no state is there a
\* set of requests each of which waits for a lock that another of the set
\* holds; and, under fair scheduling, every place_bid, update and delete that
\* has started returns.
C20_Completion ==
    /\ [](\A r \in Reqs : Cardinality({l \in locks : l[1] = r}) <= 1)
    /\ [](\A W \in SUBSET Reqs :
            W # {} => \E r \in W : \A q \in W : ~WaitsFor(r, q))
    /\ \A r \in Reqs : Started(r) ~> (req[r].pc = "done")

\* a bid waits for the lock of a row that an update holds
C20_Witness ==
    \E r, q \in Reqs :
        /\ WaitsFor(r, q)
        /\ req[r].kind = "bid" /\ req[q].kind = "update"

\* request q is a place_bid, an update or a delete that holds the lock of
\* the row it works on
HoldsOwn(q) ==
    /\ req[q].kind \in {"bid", "update", "delete"}
    /\ Holds(q, req[q].id)

\* C21: while another request holds the lock of a different lot, a
\* place_bid can take each of its steps: its locking read as soon as no other
\* request holds the lock of its own lot, then its check, its write and its
\* commit; and no step of a place_bid, update or delete on one lot changes
\* the row, the lock or the accepted bids of another lot, so that the row the
\* bid decides on is the one it would find without the other operation.
C21_DistinctLots ==
    /\ [](\A r \in Reqs :
            req[r].kind = "bid" =>
                /\ (/\ req[r].pc = "select"
                    /\ \A q \in Reqs : q # r => ~Holds(q, req[r].id)) =>
                       ENABLED BidSelect(r)
                /\ req[r].pc = "open" => ENABLED BidOpen(r)
                /\ req[r].pc = "update" => ENABLED BidUpdate(r)
                /\ req[r].pc = "commit" => ENABLED BidCommit(r))
    /\ [][\A q \in Reqs :
            (/\ req[q].kind \in {"bid", "update", "delete"}
             /\ req[q].pc \notin {"idle", "handle", "done"}
             /\ Moves(q)) =>
                \A i \in Ids :
                    i # req[q].id =>
                        /\ lots'[i] = lots[i]
                        /\ accepted'[i] = accepted[i]
                        /\ \A p \in Reqs : Holds(p, i) <=> <<p, i>> \in locks'
                        /\ \A p \in Reqs :
                              (p # q /\ req[p].kind = "bid") => req'[p] = req[p]]_vars

\* a bid on one lot has taken its lock, decided and written, and is about to
\* commit, while an update holds the lock of another lot
C21_Witness ==
    \E r, q \in Reqs :
        /\ req[r].kind = "bid" /\ req[r].pc = "commit" /\ req[r].write = "put"
        /\ Holds(r, req[r].id)
        /\ HoldsOwn(q) /\ req[q].kind = "update"
        /\ req[q].id # req[r].id

C23_NoFailedUpdate ==
    /\ [](\A r \in Reqs :
            /\ req[r].reason # FailedUpdate
            /\ InBid(r) =>
                  /\ lots[req[r].id] # NoRow
                  /\ Holds(r, req[r].id)
                  /\ \A q \in Reqs :
                        (req[q].kind = "delete" /\ req[q].id = req[r].id) =>
                            req[q].write # "del")
    /\ [][\A r \in Reqs :
            (InBid(r) /\ req[r].pc = "update" /\ Moves(r)) =>
                /\ req'[r].write = "put"
                /\ req'[r].reason = ""]_vars

\* a bid about to write while a delete waits for the lock of its lot
C23_Witness ==
    \E r, q \in Reqs :
        /\ InBid(r) /\ req[r].pc = "update"
        /\ req[q].kind = "delete" /\ req[q].pc = "exec"
        /\ req[q].id = req[r].id

\* what the process logged when it gave up, tied to what it started with
MissingCause ==
    \E i \in 1..Len(EnvNames) :
        /\ proc.fatal = <<"Missing environment variable", EnvNames[i]>>
        /\ proc.env[EnvNames[i]] \in {Unset, <<>>}
StoreCause == proc.fatal \in {<<"store", "connection">>, <<"store", "schema">>}
PortCause ==
    /\ proc.fatal \in {<<"SERVICE_PORT must be a valid integer">>,
                       <<"SERVICE_PORT must be between 1 and 65535">>}
    /\ proc.env["SERVICE_PORT"] \notin
         {<<"8", "0">>, <<" ", "8", "0", "x">>, <<"6", "5", "5", "3", "5">>}
ListenCause == proc.fatal = <<"Failed to start HTTP server">>
RegistrationDone == proc.pc = "register" /\ proc' # proc

\* C24 as stated: whatever the registry does, main goes on from the
\* registration to the server, and a process that gave up had a configuration
\* value missing or a store or schema failure.
C24_BestEffort ==
    /\ [](proc.pc = "exit" => (MissingCause \/ StoreCause))
    /\ [][RegistrationDone => proc'.pc = "listen"]_vars

\* C24, amended: whatever the registry does, main logs the outcome and goes
\* on to listen, and once it listens it takes requests; a process that gave
\* up had a configuration value missing or empty, a SERVICE_PORT that does not
\* read as an integer from 1 to 65535, a store or schema failure, or could not
\* listen on its port, and after the registration only the last of these.
C24_BestEffortAmended ==
    /\ [](proc.pc = "exit" =>
            (MissingCause \/ PortCause \/ StoreCause \/ ListenCause))
    /\ []((proc.pc = "exit" /\ proc.log # NoMessage) => ListenCause)
    /\ [](served > 0 => proc.pc = "serving")
    /\ []((proc.pc = "serving" /\ served < BootInputs.requests) =>
            ENABLED (\E r \in Reqs, kind \in Kinds, a \in BootInputs.auth :
                        Gate(r, kind, a[1], a[2], a[3])))
    /\ [][RegistrationDone =>
            /\ proc'.pc = "listen"
            /\ proc'.log # NoMessage
            /\ proc'.fatal = NoMessage]_vars
    /\ (proc.pc = "register") ~> (proc.pc = "serving" \/ ListenCause)

\* a method registration failed part-way, and the server has created a lot
C24_Witness ==
    /\ proc.pc = "serving"
    /\ proc.log = <<"Service registration failed",
                    <<"Failed to register method", "UpdateLot">>>>
    /\ lots[1] # NoRow
    /\ \E r \in Reqs : req[r].pc = "done" /\ req[r].status = 201

====
